---- MODULE Spec2Model ----
(***************************************************************************)
(* A model of spacy_regex.py: the character-offset -> token-index map      *)
(* (_chr2tok), its per-document cache (_idx_to_ti_map), the offset-to-span *)
(* resolution (get_span_from_idxs) and the four regex searches             *)
(* (doc/span x finditer/findall).                                          *)
(*                                                                         *)
(* A document is [text, toks]: text is the sequence of its characters,     *)
(* toks the sequence of its tokens, each [idx, len] (tok.idx is the        *)
(* 0-based offset of the token's first character, len is len(tok.text)).   *)
(* Token indices and character offsets are 0-based as in the code; TLA+    *)
(* sequences are 1-based, so token i is toks[i + 1].                       *)
(***************************************************************************)
EXTENDS Integers, Sequences, FiniteSets, TLC

\* Longest text of the enumerated documents.
MaxTextLen == 4
\* Saturation of the counter of index builds.
MaxBuilds == 2

DocIds == {1, 2}

(***************************************************************************)
(* Documents.  A layout marks every character of the text as the first     *)
(* character of a token ("B"), a further character of it ("I"), or a       *)
(* character between, before or after the tokens ("G").                    *)
(***************************************************************************)
Marks == {"B", "I", "G"}

ValidLayout(l) ==
    \A k \in 1..Len(l) : l[k] = "I" => (k > 1 /\ l[k - 1] \in {"B", "I"})

Layouts ==
    UNION { {l \in [1..n -> Marks] : ValidLayout(l)} : n \in 0..MaxTextLen }

\* Number of characters of the token that begins at position k of l.
RECURSIVE TokLenAt(_, _)
TokLenAt(l, k) ==
    IF k < Len(l) /\ l[k + 1] = "I" THEN 1 + TokLenAt(l, k + 1) ELSE 1

RECURSIVE LayoutToks(_, _)
LayoutToks(l, k) ==
    IF k > Len(l) THEN <<>>
    ELSE IF l[k] = "B"
         THEN <<[idx |-> k - 1, len |-> TokLenAt(l, k)]>> \o LayoutToks(l, k + 1)
         ELSE LayoutToks(l, k + 1)

LayoutDoc(l) ==
    [text |-> [k \in 1..Len(l) |-> IF l[k] = "G" THEN " " ELSE "a"],
     toks |-> LayoutToks(l, 1)]

\* The document of the usage scenario: "ab  cd" tokenized as ab(0,2), cd(4,6).
ExampleDoc ==
    [text |-> <<"a", "b", " ", " ", "c", "d">>,
     toks |-> <<[idx |-> 0, len |-> 2], [idx |-> 4, len |-> 2]>>]

\* A second document, "a " with the token a(0,1).
OtherDoc == LayoutDoc(<<"B", "G">>)

Documents == {LayoutDoc(l) : l \in Layouts} \cup {ExampleDoc}

\* Regex patterns: an alternation alt1|alt2|... of literal strings.
Patterns ==
    { << <<>> >>,
      << <<"a">> >>,
      << <<" ">> >>,
      << <<"a", "a">> >>,
      << <<"a", " ">>, <<"a">> >>,
      << <<"a">>, <<>> >>,
      << <<>>, <<"a">> >>,
      << <<"b", " ", " ", "c">> >> }

VARIABLES
    docs,    \* docs[d]: the document d, immutable
    cache,   \* cache[d]: doc._._idx_to_ti_map, [built, map]
    builds,  \* builds[d]: completed runs of set_idx_to_ti_map on d (saturating)
    res      \* the call in progress or just returned, with its result

vars == <<docs, cache, builds, res>>

NoMap == [built |-> FALSE, map |-> <<>>]

DocLen(doc) == Len(doc.text)
NToks(doc) == Len(doc.toks)
Tok(doc, i) == doc.toks[i + 1]
TokEnd(doc, i) == Tok(doc, i).idx + Tok(doc, i).len

(***************************************************************************)
(* _chr2tok                                                                *)
(***************************************************************************)
Max(S) == CHOOSE x \in S : \A y \in S : y <= x

\* d = {tok.idx: i for i, tok in enumerate(spacy_doc)}: a later token wins.
SeedMap(doc) ==
    LET keys == {doc.toks[k].idx : k \in 1..NToks(doc)}
    IN  [o \in keys |-> Max({k \in 1..NToks(doc) : doc.toks[k].idx = o}) - 1]

\* The loop without "i = d[idx]": the running index stays 0.
RECURSIVE Chr2tokLoopStale(_, _, _, _)
Chr2tokLoopStale(d, i, idx, stop) ==
    IF idx >= stop THEN d
    ELSE IF idx \in DOMAIN d
         THEN Chr2tokLoopStale(d, i, idx + 1, stop)
         ELSE Chr2tokLoopStale([o \in DOMAIN d \cup {idx} |->
                                   IF o = idx THEN i ELSE d[o]],
                               i, idx + 1, stop)

\* The loop "for idx in range(stop)" from idx on, with the dict d and the
\* running index i.
RECURSIVE Chr2tokLoop(_, _, _, _)
Chr2tokLoop(d, i, idx, stop) ==
    IF idx >= stop THEN d
    ELSE IF idx \in DOMAIN d
         THEN Chr2tokLoop(d, d[idx], idx + 1, stop)
         ELSE Chr2tokLoop([o \in DOMAIN d \cup {idx} |->
                              IF o = idx THEN i ELSE d[o]],
                          i, idx + 1, stop)

\* _chr2tok with range(...) one short: the last token's end is not indexed.
Chr2tokShort(doc) ==
    IF NToks(doc) = 0
    THEN [err |-> "IndexError", map |-> <<>>]
    ELSE [err |-> "none",
          map |-> Chr2tokLoop(SeedMap(doc), 0, 0, TokEnd(doc, NToks(doc) - 1))]

\* [err, map]: spacy_doc[-1] raises IndexError on a document without tokens.
_chr2tok(doc) ==
    IF NToks(doc) = 0
    THEN [err |-> "IndexError", map |-> <<>>]
    ELSE [err |-> "none",
          map |-> Chr2tokLoop(SeedMap(doc), 0, 0,
                              TokEnd(doc, NToks(doc) - 1) + 1)]

(***************************************************************************)
(* The cached map.  A context c = [built, map, n] is the extension state   *)
(* of one document while a call runs: doc._._idx_to_ti_map (built = FALSE  *)
(* is None) and the number n of completed builds.  Every operation returns *)
(* a record with the error raised ("none" when it returns normally) and    *)
(* the context it leaves.                                                  *)
(***************************************************************************)
Bump(n) == IF n < MaxBuilds THEN n + 1 ELSE n

\* The assignment doc._._idx_to_ti_map = r, r the outcome of _chr2tok.
StoreMap(c, r) ==
    IF r.err # "none"
    THEN [err |-> r.err, c |-> c]
    ELSE [err |-> "none",
          c |-> [built |-> TRUE, map |-> r.map, n |-> Bump(c.n)]]

\* [err, c]
set_idx_to_ti_map(c, doc) == StoreMap(c, _chr2tok(doc))

\* "return doc._._idx_to_ti_map" after the set r.
ReturnMap(r) == [err |-> r.err, map |-> r.c.map, c |-> r.c]

\* The getter without the "is None" test: it builds on every call.
GetMapRebuilding(c, doc) == ReturnMap(set_idx_to_ti_map(c, doc))

\* [err, map, c]: the getter of doc._.idx_to_ti_map
get_idx_to_ti_map(c, doc) ==
    IF ~c.built
    THEN ReturnMap(set_idx_to_ti_map(c, doc))
    ELSE [err |-> "none", map |-> c.map, c |-> c]

\* g.map[idx], a dict lookup: KeyError for a key the dict does not hold.
MapItem(g, idx) ==
    IF g.err # "none" THEN [err |-> g.err, ti |-> -1, c |-> g.c]
    ELSE IF idx \notin DOMAIN g.map
         THEN [err |-> "KeyError", ti |-> -1, c |-> g.c]
         ELSE [err |-> "none", ti |-> g.map[idx], c |-> g.c]

\* [err, ti, c]: doc._.idx_to_ti_map[idx]
get_ti_from_idx(c, doc, idx) == MapItem(get_idx_to_ti_map(c, doc), idx)

NoSpan == <<-1, -1>>

\* "return doc[start_i:end_i + 1]", a the lookup of idx_start, b of idx_end - 1.
SpanTo(a, b, idx_start, idx_end) ==
    IF b.err # "none"
    THEN [err |-> b.err, span |-> NoSpan, c |-> b.c,
          looked |-> <<idx_start, idx_end - 1>>]
    ELSE [err |-> "none", span |-> <<a.ti, b.ti + 1>>, c |-> b.c,
          looked |-> <<idx_start, idx_end - 1>>]

\* get_span_from_idxs without the test idx_start == idx_end.
SpanFromNoZeroWidth(a, doc, idx_start, idx_end) ==
    IF a.err # "none"
    THEN [err |-> a.err, span |-> NoSpan, c |-> a.c, looked |-> <<idx_start>>]
    ELSE SpanTo(a, get_ti_from_idx(a.c, doc, idx_end - 1), idx_start, idx_end)

\* get_span_from_idxs after start_i = doc._.idx2ti(idx_start), whose outcome is a.
SpanFrom(a, doc, idx_start, idx_end) ==
    IF a.err # "none"
    THEN [err |-> a.err, span |-> NoSpan, c |-> a.c, looked |-> <<idx_start>>]
    ELSE IF idx_start = idx_end
    THEN [err |-> "none", span |-> <<a.ti, a.ti>>, c |-> a.c,
          looked |-> <<idx_start>>]
    ELSE SpanTo(a, get_ti_from_idx(a.c, doc, idx_end - 1), idx_start, idx_end)

\* [err, span, c, looked]: span is <<start, end>> of the returned doc[start:end];
\* looked lists the offsets passed to idx2ti, in order.
get_span_from_idxs(c, doc, idx_start, idx_end) ==
    SpanFrom(get_ti_from_idx(c, doc, idx_start), doc, idx_start, idx_end)

(***************************************************************************)
(* re.finditer for an alternation of literals (flags = 0).  The scanner    *)
(* tries the alternatives in order at each position (leftmost-first); a    *)
(* search that follows an empty match starts where it ended and must not   *)
(* match the empty string there (must_advance).                            *)
(***************************************************************************)
AltFits(alt, str, pos) ==
    /\ pos + Len(alt) <= Len(str)
    /\ \A k \in 1..Len(alt) : str[pos + k] = alt[k]

\* The alternatives that match at pos.
AltsAt(pat, str, pos, adv) ==
    {k \in 1..Len(pat) : AltFits(pat[k], str, pos) /\ (adv => Len(pat[k]) > 0)}

Min(S) == CHOOSE x \in S : \A y \in S : x <= y

\* The end of the match at pos, or -1.
MatchAt(pat, str, pos, adv) ==
    IF AltsAt(pat, str, pos, adv) = {} THEN -1
    ELSE pos + Len(pat[Min(AltsAt(pat, str, pos, adv))])

NoMatch == <<-1, -1>>

\* m.span() of the first match found from pos on, or NoMatch.
RECURSIVE ReSearch(_, _, _, _)
ReSearch(pat, str, pos, adv) ==
    IF pos > Len(str) THEN NoMatch
    ELSE IF MatchAt(pat, str, pos, adv) # -1
         THEN <<pos, MatchAt(pat, str, pos, adv)>>
         ELSE ReSearch(pat, str, pos + 1, FALSE)

\* span.text taken through the end of the document's text.
SpanTextToEnd(doc, i, j) ==
    SubSeq(doc.text, Tok(doc, i).idx + 1, Len(doc.text))

\* span.text of doc[i:j], i < j: the text from the first token's start to
\* the last token's end.
SpanText(doc, i, j) ==
    SubSeq(doc.text, Tok(doc, i).idx + 1, TokEnd(doc, j - 1))

(***************************************************************************)
(* The generators doc_finditer and span_finditer.  A generator g is        *)
(* [kind, i, j, pat, pos, adv]: the scanner is at pos of the scanned       *)
(* string.  GenStep is one next(): [err, stop, span, c, g, looked].        *)
(***************************************************************************)
GenString(doc, g) ==
    IF g.kind = "doc" THEN doc.text ELSE SpanText(doc, g.i, g.j)

\* The span's matches left in span-local offsets.
GenOffsetLocal(doc, g) == 0

\* span_start_idx = span[0].idx; the document's matches are not shifted.
GenOffset(doc, g) ==
    IF g.kind = "doc" THEN 0 ELSE Tok(doc, g.i).idx

\* "yield doc._.idxs2span(start, end)", r the outcome of idxs2span for match m.
Yield(g, m, r) ==
    [err |-> r.err, stop |-> r.err # "none", span |-> r.span, c |-> r.c,
     g |-> [g EXCEPT !.pos = m[2], !.adv = (m[1] = m[2])],
     looked |-> r.looked]

\* The body of the for loop for the scanner's next match m.
StepMatch(c, doc, g, m) ==
    IF m = NoMatch
    THEN [err |-> "none", stop |-> TRUE, span |-> NoSpan, c |-> c, g |-> g,
          looked |-> <<>>]
    ELSE Yield(g, m, get_span_from_idxs(c, doc, m[1] + GenOffset(doc, g),
                                        m[2] + GenOffset(doc, g)))

\* span[0] raises IndexError on an empty span.
GenStep(c, doc, g) ==
    IF g.kind = "span" /\ g.i >= g.j
    THEN [err |-> "IndexError", stop |-> TRUE, span |-> NoSpan, c |-> c,
          g |-> g, looked |-> <<>>]
    ELSE StepMatch(c, doc, g, ReSearch(g.pat, GenString(doc, g), g.pos, g.adv))

\* list(generator): [err, out, c]; an exception leaves no list.
RECURSIVE Drain(_, _, _, _)
DrainStep(doc, acc, r) ==
    IF r.err # "none" THEN [err |-> r.err, out |-> <<>>, c |-> r.c]
    ELSE IF r.stop THEN [err |-> "none", out |-> acc, c |-> r.c]
    ELSE Drain(r.c, doc, r.g, Append(acc, r.span))

Drain(c, doc, g, acc) == DrainStep(doc, acc, GenStep(c, doc, g))

NewGen(kind, i, j, pat) ==
    [kind |-> kind, i |-> i, j |-> j, pat |-> pat, pos |-> 0, adv |-> FALSE]

doc_findall(c, doc, pat) == Drain(c, doc, NewGen("doc", 0, 0, pat), <<>>)

span_findall(c, doc, i, j, pat) ==
    Drain(c, doc, NewGen("span", i, j, pat), <<>>)

(***************************************************************************)
(* The state machine.  A caller holds at most one result (or generator) at *)
(* a time: it calls an operation when res is Idle and drops the result     *)
(* with Discard.  res records the call's inputs and what it returned.      *)
(***************************************************************************)
Idle ==
    [op |-> "idle", doc |-> 0, s |-> 0, e |-> 0,
     g |-> NewGen("none", 0, 0, <<>>),
     err |-> "none", ti |-> -1, map |-> <<>>, out |-> <<>>,
     looked |-> <<>>, live |-> FALSE]

Ctx(d) == [built |-> cache[d].built, map |-> cache[d].map, n |-> builds[d]]

Commit(d, c) ==
    /\ cache' = [cache EXCEPT ![d] = [built |-> c.built, map |-> c.map]]
    /\ builds' = [builds EXCEPT ![d] = c.n]

\* Document 1 is any of the documents, document 2 a fixed other one.
Init ==
    /\ docs \in {[d \in DocIds |-> IF d = 1 THEN x ELSE OtherDoc] :
                    x \in Documents}
    /\ cache = [d \in DocIds |-> NoMap]
    /\ builds = [d \in DocIds |-> 0]
    /\ res = Idle

\* doc._.idx_to_ti_map
GetMap(d) ==
    /\ res = Idle
    /\ \E r \in {get_idx_to_ti_map(Ctx(d), docs[d])} :
          /\ res' = [Idle EXCEPT !.op = "get_map", !.doc = d,
                                 !.err = r.err, !.map = r.map]
          /\ Commit(d, r.c)
    /\ UNCHANGED docs

\* doc._.idx2ti(idx)
Lookup(d, idx) ==
    /\ res = Idle
    /\ \E r \in {get_ti_from_idx(Ctx(d), docs[d], idx)} :
          /\ res' = [Idle EXCEPT !.op = "lookup", !.doc = d, !.s = idx,
                                 !.err = r.err, !.ti = r.ti]
          /\ Commit(d, r.c)
    /\ UNCHANGED docs

\* doc._.idxs2span(s, e)
Resolve(d, s, e) ==
    /\ res = Idle
    /\ \E r \in {get_span_from_idxs(Ctx(d), docs[d], s, e)} :
          /\ res' = [Idle EXCEPT !.op = "resolve", !.doc = d, !.s = s, !.e = e,
                                 !.err = r.err, !.looked = r.looked,
                                 !.out = IF r.err = "none" THEN <<r.span>>
                                         ELSE <<>>]
          /\ Commit(d, r.c)
    /\ UNCHANGED docs

\* doc._.findall(pat)
DocFindAll(d, pat) ==
    /\ res = Idle
    /\ \E r \in {doc_findall(Ctx(d), docs[d], pat)} :
          /\ res' = [Idle EXCEPT !.op = "doc_findall", !.doc = d,
                                 !.g = NewGen("doc", 0, 0, pat),
                                 !.err = r.err, !.out = r.out]
          /\ Commit(d, r.c)
    /\ UNCHANGED docs

\* doc[i:j]._.findall(pat)
SpanFindAll(d, i, j, pat) ==
    /\ res = Idle
    /\ \E r \in {span_findall(Ctx(d), docs[d], i, j, pat)} :
          /\ res' = [Idle EXCEPT !.op = "span_findall", !.doc = d,
                                 !.g = NewGen("span", i, j, pat),
                                 !.err = r.err, !.out = r.out]
          /\ Commit(d, r.c)
    /\ UNCHANGED docs

\* doc._.finditer(pat): the generator is created, none of its body has run.
DocFindIter(d, pat) ==
    /\ res = Idle
    /\ res' = [Idle EXCEPT !.op = "doc_finditer", !.doc = d,
                           !.g = NewGen("doc", 0, 0, pat), !.live = TRUE]
    /\ UNCHANGED <<docs, cache, builds>>

\* doc[i:j]._.finditer(pat)
SpanFindIter(d, i, j, pat) ==
    /\ res = Idle
    /\ res' = [Idle EXCEPT !.op = "span_finditer", !.doc = d,
                           !.g = NewGen("span", i, j, pat), !.live = TRUE]
    /\ UNCHANGED <<docs, cache, builds>>

\* next(generator): yields one span, or ends (StopIteration or an exception).
GenNext ==
    /\ res.op \in {"doc_finditer", "span_finditer"}
    /\ res.live
    /\ \E r \in {GenStep(Ctx(res.doc), docs[res.doc], res.g)} :
          /\ res' = [res EXCEPT !.g = r.g, !.err = r.err, !.live = ~r.stop,
                                !.looked = r.looked,
                                !.out = IF r.stop THEN @ ELSE Append(@, r.span)]
          /\ Commit(res.doc, r.c)
    /\ UNCHANGED docs

\* The caller drops the result or the generator.
Discard ==
    /\ res # Idle
    /\ res' = Idle
    /\ UNCHANGED <<docs, cache, builds>>

Next ==
    \/ \E d \in DocIds : GetMap(d)
    \/ \E d \in DocIds : \E idx \in -1..(DocLen(docs[d]) + 1) : Lookup(d, idx)
    \/ \E d \in DocIds : \E s \in 0..(DocLen(docs[d]) + 1) :
          \E e \in s..(DocLen(docs[d]) + 1) : Resolve(d, s, e)
    \/ \E d \in DocIds : \E pat \in Patterns : DocFindAll(d, pat)
    \/ \E d \in DocIds : \E pat \in Patterns : DocFindIter(d, pat)
    \/ \E d \in DocIds : \E i \in 0..NToks(docs[d]) : \E j \in i..NToks(docs[d]) :
          \E pat \in Patterns : SpanFindAll(d, i, j, pat)
    \/ \E d \in DocIds : \E i \in 0..NToks(docs[d]) : \E j \in i..NToks(docs[d]) :
          \E pat \in Patterns : SpanFindIter(d, i, j, pat)
    \/ GenNext
    \/ Discard

Spec == Init /\ [][Next]_vars

(***************************************************************************)
(* Properties.  The document, map and inputs of the call recorded in res.  *)
(***************************************************************************)
RDoc == docs[res.doc]
RMap == cache[res.doc].map
IsSpanOp == res.op \in {"span_findall", "span_finditer"}
IsDocOp == res.op \in {"doc_findall", "doc_finditer"}

\* The characters [SpanStart, SpanEnd) of the non-empty span doc[i:j].
SpanStart == Tok(RDoc, res.g.i).idx
SpanEnd == TokEnd(RDoc, res.g.j - 1)

\* The matches, in order, that the regex engine finds in str from pos on.
RECURSIVE RefMatches(_, _, _, _)
RefMatches(pat, str, pos, adv) ==
    IF ReSearch(pat, str, pos, adv) = NoMatch THEN <<>>
    ELSE <<ReSearch(pat, str, pos, adv)>> \o
         RefMatches(pat, str, ReSearch(pat, str, pos, adv)[2],
                    ReSearch(pat, str, pos, adv)[1]
                        = ReSearch(pat, str, pos, adv)[2])

At(map, o) == IF o \in DOMAIN map THEN map[o] ELSE -1

\* The token range of the character interval [s, e) under map.
RangeOf(map, s, e) ==
    IF s = e THEN <<At(map, s), At(map, s)>>
    ELSE <<At(map, s), At(map, e - 1) + 1>>

IsPrefix(p, q) == Len(p) <= Len(q) /\ SubSeq(q, 1, Len(p)) = p

\* C1: on a document with tokens the index covers every offset
\* 0..doc_char_length, and no resolution or document search fails for a
\* character interval inside the text.
C1_IndexCoversText ==
    /\ \A d \in DocIds : cache[d].built =>
          \A o \in 0..DocLen(docs[d]) : o \in DOMAIN cache[d].map
    /\ (res.op = "resolve" /\ NToks(RDoc) > 0 /\ res.e <= DocLen(RDoc))
          => res.err = "none"
    /\ (IsDocOp /\ NToks(RDoc) > 0) => res.err = "none"

\* C2: Resolve(s, e) is [Lookup(s), Lookup(e-1)+1) for s < e and
\* [Lookup(s), Lookup(s)) for s = e, where it looks up s alone; Resolve(0, 0)
\* succeeds with an empty span; in "ab  cd" (1,5) resolves to [0,2) and (2,2)
\* to [0,0).
C2_ResolveRange ==
    res.op = "resolve" =>
        /\ res.s = res.e => res.looked = <<res.s>>
        /\ (cache[res.doc].built /\ res.s \in DOMAIN RMap
               /\ (res.s < res.e => res.e - 1 \in DOMAIN RMap))
              => /\ res.err = "none"
                 /\ res.out = <<RangeOf(RMap, res.s, res.e)>>
        /\ (NToks(RDoc) > 0 /\ res.s = 0 /\ res.e = 0)
              => res.err = "none" /\ res.out[1][1] = res.out[1][2]
        /\ (RDoc = ExampleDoc /\ res.s = 1 /\ res.e = 5)
              => res.out = << <<0, 2>> >>
        /\ (RDoc = ExampleDoc /\ res.s = 2 /\ res.e = 2)
              => res.out = << <<0, 0>> >>

C2_Witness ==
    /\ res.op = "resolve" /\ RDoc = ExampleDoc
    /\ res.s = 2 /\ res.e = 2 /\ res.out = << <<0, 0>> >>

\* C3: the span [a, b) resolved for a non-empty interval [s, e) of the text
\* is never narrower than it: tokens[a].char_start <= s and
\* e <= tokens[b-1].char_end.
C3_Containment ==
    (res.op = "resolve" /\ res.err = "none"
        /\ res.s < res.e /\ res.e <= DocLen(RDoc))
       => /\ Tok(RDoc, res.out[1][1]).idx <= res.s
          /\ res.e <= TokEnd(RDoc, res.out[1][2] - 1)

SpanExpected ==
    LET ms == RefMatches(res.g.pat,
                         SubSeq(RDoc.text, SpanStart + 1, SpanEnd), 0, FALSE)
    IN  [k \in 1..Len(ms) |->
            RangeOf(RMap, ms[k][1] + SpanStart, ms[k][2] + SpanStart)]

\* C5: a search of a non-empty span scans the text from its first token's
\* start to its last token's end and yields, for each match, the resolution
\* of the match shifted by the first token's start.
C5_SpanScan ==
    (IsSpanOp /\ res.g.i < res.g.j /\ res.err = "none") =>
        /\ res.op = "span_findall" => res.out = SpanExpected
        /\ res.op = "span_finditer" => IsPrefix(res.out, SpanExpected)
        /\ (res.op = "span_finditer" /\ ~res.live) => res.out = SpanExpected

\* A search of a span that starts after offset 0 and holds a gap, with a
\* match in its second token.
C5_Witness ==
    /\ res.op = "span_findall" /\ res.err = "none"
    /\ res.g.i < res.g.j /\ SpanStart > 0
    /\ " " \in {RDoc.text[k] : k \in (SpanStart + 1)..SpanEnd}
    /\ \E k \in 1..Len(res.out) : res.out[k][1] > res.g.i

\* The matches of the whole text of the document of res, for its pattern.
DocMatches == RefMatches(res.g.pat, RDoc.text, 0, FALSE)

\* The subsequence of the matches ms that lie within [lo, hi].
RECURSIVE Within(_, _, _)
Within(ms, lo, hi) ==
    IF ms = <<>> THEN <<>>
    ELSE IF lo <= Head(ms)[1] /\ Head(ms)[2] <= hi
         THEN <<Head(ms)>> \o Within(Tail(ms), lo, hi)
         ELSE Within(Tail(ms), lo, hi)

\* DocumentFindAll's results for the matches within the span's text.
DocFiltered ==
    LET ms == Within(DocMatches, SpanStart, SpanEnd)
    IN  [k \in 1..Len(ms) |-> RangeOf(RMap, ms[k][1], ms[k][2])]

\* A match of the whole text crosses the span's boundary: it is neither
\* within [SpanStart, SpanEnd] nor wholly before or wholly after it.
Crosses(m) ==
    /\ ~(SpanStart <= m[1] /\ m[2] <= SpanEnd)
    /\ ~(m[2] <= SpanStart)
    /\ ~(SpanEnd <= m[1])

\* C6: SpanFindAll returns the list of DocumentFindAll's matches whose
\* character range falls within the span's text.
C6_SubRangeEquivalence ==
    (res.op = "span_findall" /\ res.g.i < res.g.j /\ res.err = "none"
        /\ doc_findall(Ctx(res.doc), RDoc, res.g.pat).err = "none")
       => res.out = DocFiltered

\* The pattern of res is an alternation of non-empty literals: it matches
\* at a position by the matched characters alone, and never the empty string.
NoEmptyAlt == \A k \in 1..Len(res.g.pat) : Len(res.g.pat[k]) > 0

NoCross == \A k \in 1..Len(DocMatches) : ~Crosses(DocMatches[k])

\* C6, amended: for an alternation of non-empty literals and a span whose
\* boundary no match of the document's text crosses, SpanFindAll succeeds and
\* returns the results of the document's matches that lie within the span's
\* text.
C6_SubRangeNoCrossing ==
    (res.op = "span_findall" /\ res.g.i < res.g.j /\ NoEmptyAlt /\ NoCross)
       => res.err = "none" /\ res.out = DocFiltered

\* A span search that returns a match, in a document with more matches
\* outside the span.
C6_Witness ==
    /\ res.op = "span_findall" /\ res.g.i < res.g.j /\ NoEmptyAlt /\ NoCross
    /\ Len(res.out) >= 1 /\ Len(DocMatches) > Len(res.out)

NonDecreasing(out) ==
    \A k \in 1..(Len(out) - 1) : out[k][1] <= out[k + 1][1]

\* C7: DocumentFindAll returns the elements DocumentFindIter produces, in
\* the same order, and the order is non-decreasing in token_start_index.
C7_OrderPreserved ==
    /\ IsDocOp => NonDecreasing(res.out)
    /\ (res.op = "doc_finditer" /\ ~res.live) =>
          /\ res.err = doc_findall(Ctx(res.doc), RDoc, res.g.pat).err
          /\ res.err = "none" =>
                res.out = doc_findall(Ctx(res.doc), RDoc, res.g.pat).out

\* An exhausted iteration over three matches in more than one token.
C7_Witness ==
    /\ res.op = "doc_finditer" /\ ~res.live /\ res.err = "none"
    /\ Len(res.out) >= 3 /\ res.out[1][1] < res.out[Len(res.out)][1]

\* The index of a document is built at most once (C8); once cached it is
\* returned unchanged and equals the built map; a call on one document leaves
\* the other's cache alone; a later call changes no span returned earlier.
C8_CacheState ==
    \A d \in DocIds :
        /\ builds[d] <= 1
        /\ cache[d].built <=> builds[d] = 1
        /\ cache[d].built => cache[d].map = _chr2tok(docs[d]).map
        /\ (res.op = "get_map" /\ res.doc = d /\ res.err = "none")
              => res.map = cache[d].map

C8_CacheStep ==
    /\ \A d \in DocIds :
          /\ cache[d].built => (cache'[d] = cache[d] /\ builds'[d] = builds[d])
          /\ d # res'.doc => (cache'[d] = cache[d] /\ builds'[d] = builds[d])
    /\ (res.op \in {"doc_finditer", "span_finditer"} /\ res'.op = res.op)
          => IsPrefix(res.out, res'.out)

\* C8: the cache state holds in every state and the cache step in every step.
C8_IdempotentCache == []C8_CacheState /\ [][C8_CacheStep]_vars

\* A second span yielded from the cached index of one document while the
\* other document's index is not built.
C8_Witness ==
    /\ res.op = "doc_finditer" /\ Len(res.out) >= 2
    /\ builds[res.doc] = 1
    /\ \E d \in DocIds : d # res.doc /\ ~cache[d].built

\* C9: on a document without tokens the build returns an empty index without
\* failing, and every lookup or resolution fails instead of returning a token
\* index.
C9_EmptyDocument ==
    (res.op # "idle" /\ NToks(RDoc) = 0) =>
        /\ res.op = "get_map" => (res.err = "none" /\ res.map = <<>>)
        /\ res.op \in {"lookup", "resolve"} => res.err # "none"

\* The matches of the text of the span of res.
SpanMatches ==
    RefMatches(res.g.pat, SubSeq(RDoc.text, SpanStart + 1, SpanEnd), 0, FALSE)

\* C10: every span [a, b) a search of the non-empty span doc[i:j] produces has
\* i <= a <= b <= j, a < b for a non-empty match, and no lookup fails: every
\* offset looked up lies in [token_i.char_start, token_(j-1).char_end].
C10_SpanResultsInside ==
    (IsSpanOp /\ res.g.i < res.g.j) =>
        /\ res.err = "none"
        /\ Len(res.out) <= Len(SpanMatches)
        /\ \A k \in 1..Len(res.out) :
              /\ res.g.i <= res.out[k][1]
              /\ res.out[k][1] <= res.out[k][2]
              /\ res.out[k][2] <= res.g.j
              /\ SpanMatches[k][1] < SpanMatches[k][2]
                    => res.out[k][1] < res.out[k][2]
        /\ \A k \in 1..Len(res.looked) :
              SpanStart <= res.looked[k] /\ res.looked[k] <= SpanEnd

\* A search of an inner span doc[i:j], 0 < i, j < len(doc), whose last result
\* is the empty span at j.
C10_Witness ==
    /\ res.op = "span_findall" /\ 0 < res.g.i /\ res.g.i < res.g.j
    /\ res.g.j < NToks(RDoc)
    /\ Len(res.out) >= 2
    /\ res.out[Len(res.out)] = <<res.g.j, res.g.j>>

====
